---- MODULE Spec2Model ----
(***************************************************************************)
(* PyFME trimmer (src/src/pyfme/utils/trimmer.py): the steady-state trim    *)
(* solver, its two kinematic closure formulas and the residual function.    *)
(*                                                                          *)
(* Numbers.  Python floats are modelled in fixed point: the integer v       *)
(* stands for v / Scale.  Residual components are integers in units of      *)
(* 1e-4 and the cost in units of 0.5e-8, so that the thresholds of          *)
(* trimmer.py:106 are integers.  NaN, PosInf and NegInf stand for the IEEE  *)
(* values of the same names; they only arise where the code divides numpy   *)
(* scalars.                                                                 *)
(***************************************************************************)
EXTENDS Integers, Sequences, FiniteSets, TLC

VARIABLES
    pc,           \* "idle", "called", "search", "returned", "raised"; "closure"
                  \* after a direct call of turn_coord_cons
    args,         \* the arguments of the call of steady_state_flight_trim
    dynamic_eqs,  \* the local of that name (trimmer.py:76)
    x0,           \* initial_guess
    x,            \* the optimizer's current solution, results['x'] at the end
    fun,          \* func's output at x, results['fun'] at the end
    nfev,         \* evaluations of func made by least_squares
    last,         \* func's locals at its latest invocation
    best,         \* func's locals at the invocation that produced fun
    ext,          \* which collaborators have been called
    warnings,     \* the warnings issued
    result,       \* the tuple returned
    exc,          \* the exception that ended the call
    want_nfev     \* the evaluation budget the caller wants to impose

vars == <<pc, args, dynamic_eqs, x0, x, fun, nfev, last, best, ext, warnings, result, exc, want_nfev>>

(* ------------------------------------------------------------------------ *)
(* Fixed-point arithmetic standing for Python's float arithmetic            *)
(* ------------------------------------------------------------------------ *)
Scale == 10 * 100

NaN == 0 - 1000000000
PosInf == 1000000000 + 1
NegInf == 0 - PosInf

IsFinite(v) == v \notin {NaN, PosInf, NegInf}

Abs(v) == IF v < 0 THEN -v ELSE v

Sign(v) == IF v < 0 THEN -1 ELSE IF v > 0 THEN 1 ELSE 0

\* a * b and a / b (b # 0) of finite numbers, rounded toward zero.
FMul(a, b) == IF a * b < 0 THEN -((-(a * b)) \div Scale) ELSE (a * b) \div Scale

FDiv(a, b) ==
    IF (a < 0) = (b < 0) THEN (Abs(a) * Scale) \div Abs(b)
    ELSE -((Abs(a) * Scale) \div Abs(b))

HalfPi == 3142 \div 2

\* math.sin, by its Taylor polynomial of degree 9 in Horner form (odd; exact
\* at 0; for |v| <= pi/2).  v2 is v * v.
SinHorner(v, v2) ==
    FMul(v, Scale - FMul(v2 \div 6, Scale - FMul(v2 \div 20,
            Scale - FMul(v2 \div 42, Scale - v2 \div 72))))

Sin(v) == Sign(v) * SinHorner(Abs(v), FMul(v, v))

\* math.cos, by its Taylor polynomial of degree 8 in Horner form (even;
\* Cos(0) = 1; for |v| <= pi/2).
CosHorner(v2) ==
    Scale - FMul(v2 \div 2, Scale - FMul(v2 \div 12,
            Scale - FMul(v2 \div 30, Scale - v2 \div 56)))

Cos(v) == CosHorner(FMul(v, v))

\* atan on [-1, 1]: v / (1 + 0.28 v^2), odd and exact at 0.
AtanUnit(v) == FDiv(v, Scale + FMul(280, FMul(v, v)))

\* math.atan: atan(nan) = nan, atan(+-inf) = +-pi/2, atan(v) = +-pi/2 - atan(1/v)
\* outside [-1, 1].
Atan(v) ==
    IF v = NaN THEN NaN
    ELSE IF v = PosInf THEN HalfPi
    ELSE IF v = NegInf THEN -HalfPi
    ELSE IF Abs(v) <= Scale THEN AtanUnit(v)
    ELSE Sign(v) * HalfPi - AtanUnit(FDiv(Scale, v))

RECURSIVE Newton(_, _)
Newton(n, r) == IF (r + n \div r) \div 2 >= r THEN r ELSE Newton(n, (r + n \div r) \div 2)

\* Largest r with r * r <= n (n >= 0).
ISqrt(n) == IF n = 0 THEN 0 ELSE Newton(n, n)

(* ------------------------------------------------------------------------ *)
(* A value or a raised exception                                            *)
(* ------------------------------------------------------------------------ *)
NoExc == "none"

Ok(v) == [exc |-> NoExc, v |-> v]

Raise(e) == [exc |-> e, v |-> 0]

\* math.sqrt: "math domain error" for a negative argument.
PySqrt(v) == IF v < 0 THEN Raise("ValueError") ELSE Ok(ISqrt(v * Scale))

\* n / d.  Python floats raise ZeroDivisionError on d = 0; numpy float64
\* scalars return +-inf (nan for 0/0) with a RuntimeWarning instead.
TrueDiv(n, d, float64) ==
    IF d = 0
    THEN IF ~float64 THEN Raise("ZeroDivisionError")
         ELSE IF n = 0 THEN Ok(NaN)
         ELSE IF n > 0 THEN Ok(PosInf) ELSE Ok(NegInf)
    ELSE Ok(FDiv(n, d))

\* atan of a quotient, unless computing the quotient raised.
AtanOf(q) == IF q.exc # NoExc THEN q ELSE Ok(Atan(q.v))

(* ------------------------------------------------------------------------ *)
(* KinematicClosure: turn_coord_cons and rate_of_climb_cons                 *)
(* Below, sa, ca, sb, cb, sg, sphi, cphi are math.sin and math.cos of       *)
(* alpha, beta, gamma and phi, and ta is math.tan(alpha).                   *)
(* ------------------------------------------------------------------------ *)
g0 == 9810

\* abs(v) < 1e-8: below the resolution 1/Scale, so only v = 0 passes.
BelowEps(v) == Abs(v) * Scale < 1

\* A faulty variant of TurnG that forgets the turn rate.
TurnGNoRate(turn_rate, TAS) == FDiv(TAS, g0)

\* G = turn_rate * TAS / g0 (trimmer.py:147).
TurnG(turn_rate, TAS) == FDiv(FMul(turn_rate, TAS), g0)

\* Denominator of the |gamma| < 1e-8 branch (trimmer.py:150).
HorizontalDen(G, sa, ca, sb) == ca - FMul(FMul(G, sa), sb)

\* trimmer.py:150-151.
TurnHorizontal(G, sa, ca, sb, cb, float64) ==
    AtanOf(TrueDiv(FMul(G, cb), HorizontalDen(G, sa, ca, sb), float64))

\* a, b, c of the general branch (trimmer.py:154-156).
TurnA(G, ta, sb) == Scale - FMul(FMul(G, ta), sb)

TurnB(sg, cb) == FDiv(sg, cb)

TurnC(G, cb) == Scale + FMul(FMul(G, G), FMul(cb, cb))

\* Argument of sqrt in the general branch (trimmer.py:158).
TurnSqArg(G, sb, b, c) == FMul(c, Scale - FMul(b, b)) + FMul(FMul(G, G), FMul(sb, sb))

\* num and den of the general branch (trimmer.py:160-161).
TurnNum(a, b, ta, sq) == (a - FMul(b, b)) + FMul(FMul(b, ta), sq)

TurnDen(a, b, c, ta) == FMul(a, a) - FMul(FMul(b, b), Scale + FMul(c, FMul(ta, ta)))

\* trimmer.py:158-163: sqrt first, then the quotient.
TurnQuotient(G, ca, cb, ta, a, b, c, sq, float64) ==
    IF sq.exc # NoExc THEN sq
    ELSE AtanOf(TrueDiv(FMul(FDiv(FMul(G, cb), ca), TurnNum(a, b, ta, sq.v)),
                        TurnDen(a, b, c, ta), float64))

TurnABC(G, ca, sb, cb, ta, a, b, c, float64) ==
    TurnQuotient(G, ca, cb, ta, a, b, c, PySqrt(TurnSqArg(G, sb, b, c)), float64)

\* trimmer.py:154-163.
TurnGeneral(G, ca, sb, cb, sg, ta, float64) ==
    TurnABC(G, ca, sb, cb, ta, TurnA(G, ta, sb), TurnB(sg, cb), TurnC(G, cb), float64)

\* phi for a coordinated turn.  float64: turn_rate or TAS is a numpy float64
\* scalar, which makes G, and every quotient G enters, a numpy scalar.
turn_coord_cons(turn_rate, alpha, beta, TAS, gamma, float64) ==
    IF BelowEps(gamma)
    THEN TurnHorizontal(TurnG(turn_rate, TAS), Sin(alpha), Cos(alpha),
                        Sin(beta), Cos(beta), float64)
    ELSE TurnGeneral(TurnG(turn_rate, TAS), Cos(alpha), Sin(beta), Cos(beta),
                     Sin(gamma), FDiv(Sin(alpha), Cos(alpha)), float64)

\* a and b of rate_of_climb_cons (trimmer.py:185-186).
ClimbA(ca, cb) == FMul(ca, cb)

ClimbB(sa, sb, cb, sphi, cphi) == FMul(sphi, sb) + FMul(FMul(cphi, sa), cb)

\* a**2 - sin(gamma)**2, the denominator of trimmer.py:190.
ClimbDen(sg, a) == FMul(a, a) - FMul(sg, sg)

\* Argument of sqrt in rate_of_climb_cons (trimmer.py:188).
ClimbSqArg(sg, a, b) == ClimbDen(sg, a) + FMul(b, b)

\* trimmer.py:188-191: sqrt first, then the quotient of Python floats.
ClimbQuotient(sg, a, b, sq) ==
    IF sq.exc # NoExc THEN sq
    ELSE AtanOf(TrueDiv(FMul(a, b) + FMul(sg, sq.v), ClimbDen(sg, a), FALSE))

ClimbAB(sg, a, b) == ClimbQuotient(sg, a, b, PySqrt(ClimbSqArg(sg, a, b)))

\* theta for the given rate of climb, wind angles and roll angle.  Every
\* operand comes out of the math module, so the quotient is a Python float's.
\* With phi = nan, b, sq and the numerator are nan: no ValueError, and the
\* division raises on a zero denominator and gives nan otherwise.
rate_of_climb_cons(gamma, alpha, beta, phi) ==
    IF phi = NaN
    THEN IF ClimbDen(Sin(gamma), ClimbA(Cos(alpha), Cos(beta))) = 0
         THEN Raise("ZeroDivisionError") ELSE Ok(NaN)
    ELSE ClimbAB(Sin(gamma), ClimbA(Cos(alpha), Cos(beta)),
                 ClimbB(Sin(alpha), Sin(beta), Cos(beta), Sin(phi), Cos(phi)))

(* ------------------------------------------------------------------------ *)
(* Collaborators                                                            *)
(* ------------------------------------------------------------------------ *)
\* pyfme.utils.coordinates.wind2body: the wind-to-body rotation through beta
\* and then alpha.
Lwb(v, sa, ca, sb, cb) ==
    << FMul(FMul(ca, cb), v[1]) - FMul(FMul(ca, sb), v[2]) - FMul(sa, v[3]),
       FMul(sb, v[1]) + FMul(cb, v[2]),
       FMul(FMul(sa, cb), v[1]) - FMul(FMul(sa, sb), v[2]) + FMul(ca, v[3]) >>

wind2body(v, alpha, beta) == Lwb(v, Sin(alpha), Cos(alpha), Sin(beta), Cos(beta))

\* What dynamic_eqs(0, vel, mass, inertia, forces, moments) can return: six
\* accelerations (units of 1e-4) computed by the aircraft and dynamics models,
\* which are not part of the trimmer.
Residuals ==
    { <<0, 0, 0, 0, 0, 0>>, <<3, 3, 0, 0, 0, 0>>,
      <<4, 3, 0, 0, 0, 0>>, <<11, 0, 0, 0, 0, 0>> }

\* A residual with a non-finite component.
NonFinite == <<NaN, 0, 0, 0, 0, 0>>

(* ------------------------------------------------------------------------ *)
(* ResidualFunction: func                                                   *)
(* ------------------------------------------------------------------------ *)
\* trimmer.py:207-210.
FuncPhi(trimmed_params, a) ==
    IF BelowEps(a.turn_rate) THEN Ok(0)
    ELSE turn_coord_cons(a.turn_rate, trimmed_params[1], trimmed_params[2],
                         a.TAS, a.gamma, a.float64)

\* trimmer.py:212, reached when line 210 did not raise.
FuncTheta(trimmed_params, a, phi) ==
    IF phi.exc # NoExc THEN phi
    ELSE rate_of_climb_cons(a.gamma, trimmed_params[1], trimmed_params[2], phi.v)

\* trimmer.py:217-221; nan propagates from theta.
FuncAngVel(turn_rate, phi, theta) ==
    IF theta = NaN THEN <<NaN, NaN, NaN>>
    ELSE << FMul(-turn_rate, Sin(theta)),
            FMul(FMul(turn_rate, Sin(phi)), Cos(theta)),
            FMul(FMul(turn_rate, Cos(theta)), Sin(phi)) >>

\* trimmer.py:217-228.
FuncDerived(trimmed_params, a, phi, theta) ==
    IF theta.exc # NoExc THEN [exc |-> theta.exc]
    ELSE [exc |-> NoExc, phi |-> phi.v, theta |-> theta.v,
          ang_vel |-> FuncAngVel(a.turn_rate, phi.v, theta.v),
          lin_vel |-> wind2body(<<a.TAS, 0, 0>>, trimmed_params[1], trimmed_params[2]),
          attitude |-> <<theta.v, phi.v, 0>>]

FuncWithPhi(trimmed_params, a, phi) ==
    FuncDerived(trimmed_params, a, phi, FuncTheta(trimmed_params, a, phi))

\* func up to its calls of the collaborators (trimmer.py:199-228): the state
\* derived from the trial unknowns, or the exception a closure formula raises.
FuncState(trimmed_params, a) == FuncWithPhi(trimmed_params, a, FuncPhi(trimmed_params, a))

(* ------------------------------------------------------------------------ *)
(* TrimSolver: steady_state_flight_trim                                     *)
(* ------------------------------------------------------------------------ *)
DefaultDynEqs == "linear_and_angular_momentum_eqs"

Unbound == "unbound"

\* trimmer.py:74-76: dynamic_eqs is assigned only when dyn_eqs is None.
ResolveDynEqs(dyn_eqs) == IF dyn_eqs = "None" THEN DefaultDynEqs ELSE Unbound

\* A faulty variant of initial_guess with the throttle as a percentage.
initial_guess_percent(gamma, turn_rate) ==
    << 50 * Sign(gamma), 1 * Sign(turn_rate), 50,
       10 * Sign(turn_rate), 10 * Sign(turn_rate), 50 * Scale >>

\* trimmer.py:79-91, with np.sign.
initial_guess(gamma, turn_rate) ==
    << 50 * Sign(gamma), 1 * Sign(turn_rate), 50,
       10 * Sign(turn_rate), 10 * Sign(turn_rate), 500 >>

lower_bounds == << -1000, -500, -1000, -1000, -1000, 0 >>

upper_bounds == << 1000, 500, 1000, 1000, 1000, 1000 >>

InBounds(v) == \A i \in 1..6 : lower_bounds[i] <= v[i] /\ v[i] <= upper_bounds[i]

\* results['cost'] = 0.5 * sum(fun**2), in units of 0.5e-8.
Cost(f) == f[1]*f[1] + f[2]*f[2] + f[3]*f[3] + f[4]*f[4] + f[5]*f[5] + f[6]*f[6]

\* 1e-7 in units of 0.5e-8, 1e-3 in units of 1e-4, 0.99.
CostTol == 20
FunTol == 10
ThrottleTol == 990

NotConverged == "Trim process did not converge"

NoPower == "Probably not enough power for demanded conditions"

\* A variant of Diagnostics with the throttle test standing on its own.
DiagnosticsIndependent(trimmed_params, f) ==
    (IF Cost(f) > CostTol \/ \E i \in 1..6 : Abs(f[i]) > FunTol
     THEN {NotConverged} ELSE {})
    \cup (IF trimmed_params[6] > ThrottleTol THEN {NoPower} ELSE {})

\* A faulty variant of Diagnostics that wants both thresholds exceeded.
DiagnosticsBoth(trimmed_params, f) ==
    IF Cost(f) > CostTol /\ \E i \in 1..6 : Abs(f[i]) > FunTol
    THEN {NotConverged} \cup (IF trimmed_params[6] > ThrottleTol THEN {NoPower} ELSE {})
    ELSE {}

\* trimmer.py:106-109.
Diagnostics(trimmed_params, f) ==
    IF Cost(f) > CostTol \/ \E i \in 1..6 : Abs(f[i]) > FunTol
    THEN {NotConverged} \cup (IF trimmed_params[6] > ThrottleTol THEN {NoPower} ELSE {})
    ELSE {}

\* A faulty variant of TrimPhi that calls
\* turn_coord_cons_horizontal_and_small_beta (trimmer.py:168-179) instead.
TrimPhiSmallBeta(trimmed_params, a) ==
    IF BelowEps(a.turn_rate) THEN Ok(0)
    ELSE AtanOf(TrueDiv(TurnG(a.turn_rate, a.TAS), Cos(trimmed_params[1]), a.float64))

\* trimmer.py:122-125.
TrimPhi(trimmed_params, a) ==
    IF BelowEps(a.turn_rate) THEN Ok(0)
    ELSE turn_coord_cons(a.turn_rate, trimmed_params[1], trimmed_params[2],
                         a.TAS, a.gamma, a.float64)

\* trimmer.py:127, reached when line 125 did not raise.
TrimTheta(trimmed_params, a, phi) ==
    IF phi.exc # NoExc THEN phi
    ELSE rate_of_climb_cons(a.gamma, trimmed_params[1], trimmed_params[2], phi.v)

\* A faulty variant of TrimAngVel with r = turn_rate * cos(theta) * cos(phi).
TrimAngVelYaw(turn_rate, phi, theta) ==
    IF theta = NaN THEN <<NaN, NaN, NaN>>
    ELSE << FMul(-turn_rate, Sin(theta)),
            FMul(FMul(turn_rate, Sin(phi)), Cos(theta)),
            FMul(FMul(turn_rate, Cos(theta)), Cos(phi)) >>

\* trimmer.py:132-136; nan propagates from theta.
TrimAngVel(turn_rate, phi, theta) ==
    IF theta = NaN THEN <<NaN, NaN, NaN>>
    ELSE << FMul(-turn_rate, Sin(theta)),
            FMul(FMul(turn_rate, Sin(phi)), Cos(theta)),
            FMul(FMul(turn_rate, Cos(theta)), Sin(phi)) >>

\* trimmer.py:111-120 and 132-139.
TrimDerived(trimmed_params, a, phi, theta) ==
    IF theta.exc # NoExc THEN [exc |-> theta.exc]
    ELSE [exc |-> NoExc,
          lin_vel |-> wind2body(<<a.TAS, 0, 0>>, trimmed_params[1], trimmed_params[2]),
          ang_vel |-> TrimAngVel(a.turn_rate, phi.v, theta.v),
          theta |-> theta.v, phi |-> phi.v,
          alpha |-> trimmed_params[1], beta |-> trimmed_params[2],
          control_vector |-> <<trimmed_params[3], trimmed_params[4],
                               trimmed_params[5], trimmed_params[6]>>]

TrimWithPhi(trimmed_params, a, phi) ==
    TrimDerived(trimmed_params, a, phi, TrimTheta(trimmed_params, a, phi))

\* trimmer.py:111-139: the state rebuilt from the solution.
TrimState(trimmed_params, a) == TrimWithPhi(trimmed_params, a, TrimPhi(trimmed_params, a))

(* ------------------------------------------------------------------------ *)
(* Inputs and the optimizer's moves                                         *)
(* ------------------------------------------------------------------------ *)
\* least_squares stops after max_nfev evaluations; steady_state_flight_trim
\* passes none (trimmer.py:99-100), which leaves the optimizer's own default,
\* 100 * n.  MaxNfev stands for that default.
MaxNfev == 3

HSet == {1000 * Scale}

TASSet == {-100 * Scale, 0, 100 * Scale, 131200}

GammaSet == {-50, 0, 1500}

TurnRateSet == {-100, 0, 100}

DynEqsSet == {"None", "user_eqs"}

\* Points least_squares may try from x0: it keeps every iterate inside
\* (lower_bounds, upper_bounds).
TrialPoints(start) ==
    { start,
      <<1000, start[2], start[3], start[4], start[5], start[6]>>,
      <<start[1], 500, -1000, 1000, 1000, 995>>,
      <<1000, 500, -1000, 1000, 1000, 995>> }

Zero6 == <<0, 0, 0, 0, 0, 0>>

NoArgs == [h |-> 0, TAS |-> 0, gamma |-> 0, turn_rate |-> 0, dyn_eqs |-> "None",
           float64 |-> FALSE]

NoEval == [exc |-> "not called", x |-> Zero6]

NoExt == [atm |-> FALSE, aircraft |-> FALSE, dyn |-> {}]

NoResult == [exc |-> "no result"]

Init ==
    /\ pc = "idle"
    /\ args = NoArgs
    /\ dynamic_eqs = Unbound
    /\ x0 = Zero6
    /\ x = Zero6
    /\ fun = Zero6
    /\ nfev = 0
    /\ last = NoEval
    /\ best = NoEval
    /\ ext = NoExt
    /\ warnings = {}
    /\ result = NoResult
    /\ exc = NoExc
    /\ want_nfev = 0

\* steady_state_flight_trim is entered and runs up to the call of
\* least_squares (trimmer.py:25-97).  Reading dynamic_eqs at line 93 raises
\* UnboundLocalError when line 76 did not assign it.
Call(h, TAS, gamma, turn_rate, dyn_eqs, float64, want) ==
    /\ pc = "idle"
    /\ args' = [h |-> h, TAS |-> TAS, gamma |-> gamma, turn_rate |-> turn_rate,
                dyn_eqs |-> dyn_eqs, float64 |-> float64]
    /\ want_nfev' = want
    /\ dynamic_eqs' = ResolveDynEqs(dyn_eqs)
    /\ x0' = initial_guess(gamma, turn_rate)
    /\ IF dynamic_eqs' = Unbound
       THEN pc' = "raised" /\ exc' = "UnboundLocalError"
       ELSE pc' = "called" /\ exc' = NoExc
    /\ x' = Zero6 /\ fun' = Zero6 /\ nfev' = 0
    /\ last' = NoEval /\ best' = NoEval /\ ext' = NoExt
    /\ warnings' = {} /\ result' = NoResult

\* func(p, ...) as least_squares invokes it (trimmer.py:196-240): its locals,
\* and the collaborators it reaches unless a closure formula raised first.
FuncLocals(p) == [x |-> p] @@ FuncState(p, args)

CalledBy(st) ==
    IF st.exc # NoExc THEN ext
    ELSE [atm |-> TRUE, aircraft |-> TRUE, dyn |-> ext.dyn \cup {dynamic_eqs}]

\* func ran at x0 with locals st and, unless it raised, returned f.
Evaluated0(f, st) ==
    /\ last' = st
    /\ ext' = CalledBy(st)
    /\ nfev' = 1
    /\ IF st.exc # NoExc
       THEN pc' = "raised" /\ exc' = st.exc /\ UNCHANGED <<x, fun, best>>
       ELSE IF f = NonFinite
       THEN pc' = "raised" /\ exc' = "ValueError" /\ UNCHANGED <<x, fun, best>>
       ELSE pc' = "search" /\ x' = x0 /\ fun' = f /\ best' = st /\ UNCHANGED exc

\* least_squares starts (trimmer.py:99-100): it rejects an x0 outside the
\* bounds, evaluates func at x0 and rejects a non-finite residual.
FirstEvaluation ==
    /\ pc = "called"
    /\ IF ~InBounds(x0)
       THEN /\ pc' = "raised" /\ exc' = "ValueError"
            /\ UNCHANGED <<x, fun, nfev, last, best, ext>>
       ELSE \E f \in Residuals \cup {NonFinite} : Evaluated0(f, FuncLocals(x0))
    /\ UNCHANGED <<args, dynamic_eqs, x0, warnings, result, want_nfev>>

\* A faulty variant of BudgetLeft: no budget at all.
BudgetLeftAlways == TRUE

\* The search goes on while evaluations are left.
BudgetLeft == nfev < MaxNfev

\* func ran at p with locals st and, unless it raised, returned f: the step
\* is taken when it lowers the cost, and a non-finite residual is never taken.
Evaluated(p, f, st) ==
    /\ last' = st
    /\ ext' = CalledBy(st)
    /\ nfev' = nfev + 1
    /\ IF st.exc # NoExc
       THEN pc' = "raised" /\ exc' = st.exc /\ UNCHANGED <<x, fun, best>>
       ELSE IF f # NonFinite /\ Cost(f) < Cost(fun)
       THEN x' = p /\ fun' = f /\ best' = st /\ UNCHANGED <<pc, exc>>
       ELSE UNCHANGED <<pc, exc, x, fun, best>>

\* One more evaluation at a point inside the bounds.
Trial ==
    /\ pc = "search"
    /\ BudgetLeft
    /\ \E p \in TrialPoints(x0) \ {x}, f \in Residuals \cup {NonFinite} :
          Evaluated(p, f, FuncLocals(p))
    /\ UNCHANGED <<args, dynamic_eqs, x0, warnings, result, want_nfev>>

\* trimmer.py:111-139 ended with st.
Rebuilt(st) ==
    IF st.exc # NoExc
    THEN pc' = "raised" /\ exc' = st.exc /\ result' = NoResult
    ELSE pc' = "returned" /\ result' = st /\ UNCHANGED exc

\* least_squares returns; the solution is validated and the state rebuilt
\* (trimmer.py:102-139).
Finish ==
    /\ pc = "search"
    /\ warnings' = Diagnostics(x, fun)
    /\ Rebuilt(TrimState(x, args))
    /\ UNCHANGED <<args, dynamic_eqs, x0, x, fun, nfev, last, best, ext, want_nfev>>

\* A caller that asks for no evaluation budget.
Next ==
    \/ \E h \in HSet, TAS \in TASSet, gamma \in GammaSet, turn_rate \in TurnRateSet,
          dyn_eqs \in DynEqsSet, float64 \in BOOLEAN :
            Call(h, TAS, gamma, turn_rate, dyn_eqs, float64, 0)
    \/ FirstEvaluation
    \/ Trial
    \/ Finish

Spec == Init /\ [][Next]_vars

\* A caller that wants the search to stop after want evaluations.  The
\* signature of steady_state_flight_trim (trimmer.py:25-26) has no parameter to
\* carry the wish, so it stays with the caller.
NextBudget ==
    \/ \E h \in HSet, gamma \in GammaSet, turn_rate \in TurnRateSet, want \in 1..MaxNfev :
            Call(h, 100 * Scale, gamma, turn_rate, "None", FALSE, want)
    \/ FirstEvaluation
    \/ Trial
    \/ Finish

SpecBudget == Init /\ [][NextBudget]_vars

(* ------------------------------------------------------------------------ *)
(* The closure formula called on its own                                    *)
(* ------------------------------------------------------------------------ *)
AlphaSet == {-1000, 0, 50, 1000}

BetaSet == {-500, 0, 1, 500}

ClosureGammaSet == {-50, 0, 50, 1000, 1500, 1571}

\* turn_coord_cons(turn_rate, alpha, beta, TAS, gamma) called directly: args
\* and x hold the inputs, result what the call returned or raised.
CallTurnCoord(turn_rate, alpha, beta, TAS, gamma, float64) ==
    /\ pc = "idle"
    /\ pc' = "closure"
    /\ args' = [h |-> 0, TAS |-> TAS, gamma |-> gamma, turn_rate |-> turn_rate,
                dyn_eqs |-> "None", float64 |-> float64]
    /\ x' = <<alpha, beta, 0, 0, 0, 0>>
    /\ result' = turn_coord_cons(turn_rate, alpha, beta, TAS, gamma, float64)
    /\ UNCHANGED <<dynamic_eqs, x0, fun, nfev, last, best, ext, warnings, exc, want_nfev>>

NextClosure ==
    \E turn_rate \in {0, 100}, alpha \in AlphaSet, beta \in BetaSet,
       TAS \in {50 * Scale, 100 * Scale}, gamma \in ClosureGammaSet, float64 \in BOOLEAN :
        CallTurnCoord(turn_rate, alpha, beta, TAS, gamma, float64)

SpecClosure == Init /\ [][NextClosure]_vars

(* ------------------------------------------------------------------------ *)
(* Properties.  Unless said otherwise they are read under Spec.             *)
(* ------------------------------------------------------------------------ *)

\* C1: a call that supplies dyn_eqs proceeds (it does not end in an
\* UnboundLocalError), the solver holds exactly the supplied implementation
\* as its dynamics, and no residual evaluation calls any other one.  The code
\* violates it: dynamic_eqs is assigned only when dyn_eqs is None.
C1_SuppliedDynEqsUsed ==
    args.dyn_eqs # "None" /\ pc # "idle" =>
        /\ exc # "UnboundLocalError"
        /\ dynamic_eqs = args.dyn_eqs
        /\ ext.dyn \subseteq {args.dyn_eqs}

\* C2, as stated: on every returned result the power warning is issued if and
\* only if the solved throttle exceeds 0.99, whatever the convergence warning.
C2_PowerIndependent ==
    pc = "returned" =>
        (NoPower \in warnings <=> result.control_vector[4] > ThrottleTol)

\* C2, as the code has it: on every returned result the power warning is
\* issued if and only if the convergence warning is issued and the solved
\* throttle exceeds 0.99; it is never issued alone.
C2_PowerNested ==
    pc = "returned" =>
        (NoPower \in warnings <=>
            (NotConverged \in warnings /\ result.control_vector[4] > ThrottleTol))

\* A converged solve with the throttle above 0.99 and no warning at all.
C2_Witness ==
    /\ pc = "returned"
    /\ result.control_vector[4] > ThrottleTol
    /\ warnings = {}

\* C3: on every returned result the convergence warning is issued whenever
\* the cost exceeds 1e-7 or a residual component exceeds 1e-3 in magnitude, so
\* a result without it has cost <= 1e-7 and every component <= 1e-3.
C3_ConvergenceWarning ==
    pc = "returned" =>
        /\ (Cost(fun) > CostTol \/ \E i \in 1..6 : Abs(fun[i]) > FunTol)
                => NotConverged \in warnings
        /\ NotConverged \notin warnings
                => Cost(fun) <= CostTol /\ \A i \in 1..6 : Abs(fun[i]) <= FunTol

\* A returned result warned about for its cost alone.
C3_Witness ==
    /\ pc = "returned"
    /\ Cost(fun) > CostTol
    /\ \A i \in 1..6 : Abs(fun[i]) <= FunTol
    /\ NotConverged \in warnings

\* C4: a call with TAS <= 0 that got past line 93 has been rejected as an
\* invalid flight condition before the optimizer started: no residual
\* evaluation, no call of the atmosphere, aircraft or dynamics models, no
\* result.  The code violates it: it never looks at the sign of TAS.
C4_NonPositiveTASRejected ==
    args.TAS <= 0 /\ pc \notin {"idle", "called"} /\ exc # "UnboundLocalError" =>
        /\ pc = "raised"
        /\ exc = "InvalidFlightCondition"
        /\ nfev = 0
        /\ ext = NoExt
        /\ result = NoResult

\* The box of the six trim variables.
Box(v) ==
    /\ -Scale <= v[1] /\ v[1] <= Scale
    /\ -(Scale \div 2) <= v[2] /\ v[2] <= Scale \div 2
    /\ \A i \in 3..5 : -Scale <= v[i] /\ v[i] <= Scale
    /\ 0 <= v[6] /\ v[6] <= Scale

\* C7: the initial guess is inside the box for every sign of gamma and
\* turn_rate, every point handed to func is inside the box, and so are the
\* alpha, beta and control vector of a returned result.
C7_WithinBox ==
    /\ pc # "idle" => Box(x0)
    /\ last.exc # "not called" => Box(last.x)
    /\ pc = "returned" =>
          Box(<<result.alpha, result.beta,
                result.control_vector[1], result.control_vector[2],
                result.control_vector[3], result.control_vector[4]>>)

\* A result returned, for negative gamma and turn_rate, away from the guess.
C7_Witness ==
    /\ pc = "returned"
    /\ args.gamma < 0 /\ args.turn_rate < 0
    /\ x # x0
    /\ last.x # x0

\* The general branch of turn_coord_cons at alpha, beta for the call a: the
\* argument of its sqrt and its denominator.
GeneralSqArg(a, alpha, beta) ==
    TurnSqArg(TurnG(a.turn_rate, a.TAS), Sin(beta),
              TurnB(Sin(a.gamma), Cos(beta)), TurnC(TurnG(a.turn_rate, a.TAS), Cos(beta)))

GeneralDen(a, alpha, beta) ==
    TurnDen(TurnA(TurnG(a.turn_rate, a.TAS), FDiv(Sin(alpha), Cos(alpha)), Sin(beta)),
            TurnB(Sin(a.gamma), Cos(beta)), TurnC(TurnG(a.turn_rate, a.TAS), Cos(beta)),
            FDiv(Sin(alpha), Cos(alpha)))

\* turn_coord_cons is given a negative sqrt argument or a zero denominator.
TurnDomainError(a, alpha, beta) ==
    IF BelowEps(a.gamma)
    THEN HorizontalDen(TurnG(a.turn_rate, a.TAS), Sin(alpha), Cos(alpha), Sin(beta)) = 0
    ELSE GeneralSqArg(a, alpha, beta) < 0 \/ GeneralDen(a, alpha, beta) = 0

\* rate_of_climb_cons is given a negative sqrt argument or a zero denominator.
ClimbDomainError(gamma, alpha, beta, phi) ==
    \/ ClimbDen(Sin(gamma), ClimbA(Cos(alpha), Cos(beta))) = 0
    \/ /\ phi # NaN
       /\ ClimbSqArg(Sin(gamma), ClimbA(Cos(alpha), Cos(beta)),
                     ClimbB(Sin(alpha), Sin(beta), Cos(beta), Sin(phi), Cos(phi))) < 0

\* The latest evaluation of func met a domain error in the closure formula it
\* called, phi being what turn_coord_cons or the fast path gave.
FuncDomainError(p, a, phi) ==
    \/ ~BelowEps(a.turn_rate) /\ TurnDomainError(a, p[1], p[2])
    \/ phi.exc = NoExc /\ ClimbDomainError(a.gamma, p[1], p[2], phi.v)

\* C5: an evaluation of func in which a closure formula gets a negative sqrt
\* argument or a zero denominator ends the call with that failure, and no
\* evaluation hands a non-finite phi or theta on.  The code violates it: with
\* numpy scalars a zero denominator of turn_coord_cons gives atan(+-inf).
C5_DomainErrorAborts ==
    last.exc # "not called" =>
        /\ FuncDomainError(last.x, args, FuncPhi(last.x, args))
              => pc = "raised" /\ exc \in {"ValueError", "ZeroDivisionError"}
        /\ last.exc = NoExc => IsFinite(last.phi) /\ IsFinite(last.theta)

\* C6, as stated, under SpecClosure: for turn_rate = 0 and TAS > 0
\* turn_coord_cons returns phi = 0, whatever alpha, beta and gamma.
C6_ZeroTurnRateZeroPhi ==
    pc = "closure" /\ args.turn_rate = 0 /\ args.TAS > 0 => result = Ok(0)

\* C6, as the code has it, under SpecClosure: for turn_rate = 0 and TAS > 0
\* turn_coord_cons returns phi = 0, the value of the fast path of func and of
\* the solver, on the |gamma| < 1e-8 branch, and on the general branch when
\* the sqrt argument is not negative and the denominator is not zero; on the
\* general branch it otherwise raises or returns nan.
C6_ZeroPhiWhereDefined ==
    pc = "closure" /\ args.turn_rate = 0 /\ args.TAS > 0 =>
        /\ FuncPhi(x, args) = Ok(0) /\ TrimPhi(x, args) = Ok(0)
        /\ BelowEps(args.gamma) => result = Ok(0)
        /\ ~BelowEps(args.gamma) =>
              IF GeneralSqArg(args, x[1], x[2]) < 0 THEN result = Raise("ValueError")
              ELSE IF GeneralDen(args, x[1], x[2]) # 0 THEN result = Ok(0)
              ELSE IF args.float64 THEN result = Ok(NaN)
              ELSE result = Raise("ZeroDivisionError")

\* The general branch returning phi = 0 for turn_rate = 0.
C6_Witness ==
    /\ pc = "closure"
    /\ args.turn_rate = 0 /\ args.TAS > 0
    /\ ~BelowEps(args.gamma)
    /\ x[1] # 0 /\ x[2] # 0
    /\ result = Ok(0)

\* C8: in every returned result, converged or not, alpha and beta are the
\* optimizer's, phi is turn_coord_cons of them (0 for |turn_rate| < 1e-8) and
\* theta is rate_of_climb_cons of them and phi; the optimizer's unknowns are
\* the six trim variables.
C8_ClosureValues ==
    pc = "returned" =>
        /\ Len(x) = 6
        /\ result.alpha = x[1] /\ result.beta = x[2]
        /\ result.phi =
              IF BelowEps(args.turn_rate) THEN 0
              ELSE turn_coord_cons(args.turn_rate, result.alpha, result.beta,
                                   args.TAS, args.gamma, args.float64).v
        /\ result.theta =
              rate_of_climb_cons(args.gamma, result.alpha, result.beta, result.phi).v

\* A result returned unconverged from a climbing turn, away from the guess.
C8_Witness ==
    /\ pc = "returned"
    /\ args.turn_rate # 0 /\ args.gamma # 0
    /\ NotConverged \in warnings
    /\ x # x0
    /\ result.phi # 0 /\ result.theta # 0

C10_CallerBudget == nfev <= want_nfev

\* C10, as the code has it, under SpecBudget: the search makes no more
\* evaluations than the optimizer's own default budget, whatever its caller
\* wants, and a result is returned after at least one and at most that many.
C10_DefaultBudget ==
    /\ nfev <= MaxNfev
    /\ pc = "returned" => 1 <= nfev /\ nfev <= MaxNfev

\* The default budget spent in a call that wanted a smaller one.
C10_Witness ==
    /\ pc = "search"
    /\ nfev = MaxNfev
    /\ want_nfev < MaxNfev

====
